---- MODULE Spec2Model ----
(***************************************************************************)
(* Model of ServiceDescriptionValidator                                    *)
(* (src/services/service_description_validator.py): the presence gate, the *)
(* contract section aligner, the oracle-backed section comparator and the  *)
(* aggregation loop of validate_service_description.                       *)
(*                                                                         *)
(* Text is modelled at the level the code's regular expressions look at:   *)
(*   - a contract is a sequence of blocks separated by blank lines; a      *)
(*     block is one line made of words (alphanumeric tokens) and           *)
(*     punctuation tokens;                                                 *)
(*   - an oracle response is a sequence of lexeme runs, each with its      *)
(*     number of characters, so that slicing to 400 characters is exact.   *)
(* Further parts: _extract_sections_from_text character by character      *)
(* (SpecSegment), successive runs on one validator (SpecRuns), the session *)
(* state of src/app.py under its two buttons (SpecUI), and run_pipeline    *)
(* with DocumentExtractor.extract_service_description                      *)
(* (src/services/document_extractor.py) in front of the validator          *)
(* (SpecPipeline).                                                         *)
(*                                                                         *)
(* Python indices are 0-based; the model's sequences are 1-based, so       *)
(* start_idx starts at 1, end_idx defaults to num_paragraphs + 1 and       *)
(* found_idx = 0 stands for None.                                          *)
(***************************************************************************)
EXTENDS Integers, Sequences, FiniteSets, TLC

VARIABLES
    ref_sections,       \* extract_reference_sections(): <<[title, content], ...>>
    contract_md_text,   \* argument of the running validate_service_description
    pc,                 \* position of the run
    paragraphs,         \* extract_contract_sections: paragraphs
    align_i,            \* extract_contract_sections: index of the heading loop
    start_idx,          \* extract_contract_sections: scan cursor
    aligned_sections,   \* extract_contract_sections: dict heading -> section text
    align_log,          \* history: per heading position, what the loop body did
    cmp_i,              \* validate_service_description: index of the section loop
    modified_results,   \* validate_service_description: modified_results
    oracle_log,         \* history: the oracle calls of the run, in call order
    report,             \* value returned by validate_service_description
    raised,             \* exception propagated out of validate_service_description
    cmp_call,           \* last direct call of compare_section_with_gpt
    seg_call,           \* last direct call of _extract_sections_from_text
    session_state,      \* app.py: st.session_state of one browser session
    pipeline            \* app.py: position and locals of run_pipeline

vars == <<ref_sections, contract_md_text, pc, paragraphs, align_i, start_idx,
          aligned_sections, align_log, cmp_i, modified_results, oracle_log,
          report, raised, cmp_call, seg_call, session_state, pipeline>>

\* the variables outside ServiceDescriptionValidator's run and comparator
app_vars == <<seg_call, session_state, pipeline>>

None == "None"

-----------------------------------------------------------------------------
(* Bounds of the model *)

MaxBlocks == 4          \* blocks of a contract text
MaxItems == 3           \* lexeme runs of an oracle response

-----------------------------------------------------------------------------
(* Words, str.lower, and the character classes of the regular expressions *)

\* str.lower() on the words of the model's vocabulary
Lower(w) ==
    CASE w = "Attachment" -> "attachment"
      [] w = "ATTACHMENT" -> "attachment"
      [] w = "Service" -> "service"
      [] w = "Description" -> "description"
      [] w = "Term" -> "term"
      [] w = "TERM" -> "term"
      [] w = "Scope" -> "scope"
      [] w = "Confidential" -> "confidential"
      [] w = "PageHeader" -> "pageheader"
      [] OTHER -> w

LowerWords(ws) == [k \in 1..Len(ws) |-> Lower(ws[k])]

\* tokens all of whose characters are outside [a-zA-Z0-9]
Punct == {"#", "<!--", "-->", "=", "'", ":", "-", "*"}

-----------------------------------------------------------------------------
(* Contract text *)

Para(h, ws) == [kind |-> "para", hashes |-> h, words |-> ws]
Comment(ws) == [kind |-> "comment", hashes |-> 0, words |-> ws]
PageHeader(ws) == [kind |-> "pageheader", hashes |-> 0, words |-> ws]
Figure(ws) == [kind |-> "figure", hashes |-> 0, words |-> ws]

\* the blocks contract texts are built from
BlockPool ==
    { Para(1, <<"TERM">>),
      PageHeader(<<"Scope">>),
      Para(0, <<"lorem">>),
      Para(0, <<"ATTACHMENT", "1", ":", "Service", "Description">>),
      Comment(<<"Attachment", "1", "-", "Service", "Description">>) }

RECURSIVE SeqsUpTo(_, _)
SeqsUpTo(S, n) ==
    IF n = 0 THEN {<<>>}
    ELSE LET shorter == SeqsUpTo(S, n - 1)
         IN  shorter \cup {Append(s, x) : s \in {t \in shorter : Len(t) = n - 1}, x \in S}

ContractTexts == SeqsUpTo(BlockPool, MaxBlocks)

\* the tokens of a block as they stand in the raw text
RawWords(b) ==
    CASE b.kind = "para" ->
            (IF b.hashes > 0 THEN <<"#">> ELSE <<>>) \o b.words
      [] b.kind = "comment" -> <<"<!--">> \o b.words \o <<"-->">>
      [] b.kind = "pageheader" ->
            <<"<!--", "PageHeader", "=", "'">> \o b.words \o <<"'", "-->">>
      [] b.kind = "figure" -> <<"figure">> \o b.words \o <<"figure">>

RECURSIVE RawText(_)
RawText(text) ==
    IF text = <<>> THEN <<>> ELSE RawWords(Head(text)) \o RawText(Tail(text))


\* clean_text_preserve_headings followed by the paragraph split of
\* extract_contract_sections: a PageHeader comment becomes its text on a line
\* of its own, other comments and figures vanish, a line holding only a
\* boilerplate word vanishes, and empty pieces are filtered out (a piece that
\* is only "#" is not empty).
IsBoilerplate(b) ==
    /\ b.hashes = 0
    /\ Len(b.words) = 1
    /\ Lower(b.words[1]) \in {"logo", "footer", "confidential"}

clean_text_preserve_headings(text) ==
    LET unwrap(b) == IF b.kind = "pageheader" THEN Para(0, b.words) ELSE b
        keep(b) == /\ b.kind = "para"
                   /\ (b.words # <<>> \/ b.hashes > 0)
                   /\ ~IsBoilerplate(b)
    IN  SelectSeq([k \in 1..Len(text) |-> unwrap(text[k])], keep)

\* re.sub(r'^#+\s*', '', p).strip().lower()
p_clean(p) == LowerWords(p.words)

-----------------------------------------------------------------------------
(* Gate: re.search(r"attachment\s*1[^a-zA-Z0-9]*service\s*description", re.I) *)

RECURSIVE SkipPunct(_, _)
SkipPunct(ws, k) ==
    IF k <= Len(ws) /\ ws[k] \in Punct THEN SkipPunct(ws, k + 1) ELSE k

GateMatchAt(ws, k) ==
    /\ k + 1 <= Len(ws)
    /\ Lower(ws[k]) = "attachment"
    /\ ws[k + 1] = "1"
    /\ LET j == SkipPunct(ws, k + 2)
       IN  /\ j + 1 <= Len(ws)
           /\ Lower(ws[j]) = "service"
           /\ Lower(ws[j + 1]) = "description"

RECURSIVE GateSearchFrom(_, _)
GateSearchFrom(ws, k) ==
    IF k > Len(ws) THEN FALSE
    ELSE GateMatchAt(ws, k) \/ GateSearchFrom(ws, k + 1)

GateSearch(text) == GateSearchFrom(RawText(text), 1)

-----------------------------------------------------------------------------
(* Reference document *)

\* the section lists _extract_sections_from_text can return for a reference
\* file: titles may repeat, each section has its own content, and a file
\* without headings gives the empty list
RefTitleLists ==
    { <<>>,
      <<<<"Term">>>>,
      <<<<"Term">>, <<"Scope">>>>,
      <<<<"Scope">>, <<"Term">>>>,
      <<<<"Term">>, <<"Term">>>>,
      <<<<"Term">>, <<"Scope">>, <<"Term">>>> }

RefSectionLists ==
    { [k \in 1..Len(ts) |-> [title |-> ts[k], content |-> <<"reference", k>>]] :
        ts \in RefTitleLists }

ref_headings == [k \in 1..Len(ref_sections) |-> ref_sections[k].title]

-----------------------------------------------------------------------------
(* extract_contract_sections, one iteration of its heading loop *)

\* the inner scan: first j in lo..num_paragraphs whose cleaned text equals the
\* lower-cased heading, 0 when the scan ends without a match
RECURSIVE ScanFor(_, _, _)
ScanFor(ps, heading, lo) ==
    IF lo > Len(ps) THEN 0
    ELSE IF p_clean(ps[lo]) = LowerWords(heading) THEN lo
    ELSE ScanFor(ps, heading, lo + 1)

\* the nearest paragraph after found_idx that matches any later heading
FindEnd_Nearest(ps, headings, k, found_idx) ==
    LET J == {j \in (found_idx + 1)..Len(ps) :
                 \E k2 \in k..Len(headings) :
                     p_clean(ps[j]) = LowerWords(headings[k2])}
    IN  IF J = {} THEN Len(ps) + 1
        ELSE CHOOSE j \in J : \A j2 \in J : j <= j2

\* "Find next heading": the later headings are tried in reference order, each
\* scanned from found_idx + 1; the first one with a match gives end_idx
RECURSIVE FindEnd(_, _, _, _)
FindEnd(ps, headings, k, found_idx) ==
    IF k > Len(headings) THEN Len(ps) + 1
    ELSE LET j == ScanFor(ps, headings[k], found_idx + 1)
         IN  IF j # 0 THEN j ELSE FindEnd(ps, headings, k + 1, found_idx)

\* the cursor is left on the matched heading
NewCursor_Found(found_idx, end_idx) == found_idx

\* "start_idx = end_idx": the cursor after a match
NewCursor(found_idx, end_idx) == end_idx

\* the section text starts on the matched heading
SectionText_WithHeading(ps, found_idx, end_idx) ==
    SubSeq(ps, found_idx, end_idx - 1)

\* "\n\n".join(paragraphs[found_idx+1:end_idx]).strip()
SectionText(ps, found_idx, end_idx) == SubSeq(ps, found_idx + 1, end_idx - 1)

\* aligned_sections[heading] = text
DictSet(d, key, val) ==
    [x \in DOMAIN d \cup {key} |-> IF x = key THEN val ELSE d[x]]

\* dict.get(key, default)
DictGet(d, key, default) == IF key \in DOMAIN d THEN d[key] ELSE default

EmptyDict == [x \in {} |-> <<>>]

\* the heading loop of extract_contract_sections from heading i on, with the
\* cursor and the dict it has at that point
RECURSIVE AlignFrom(_, _, _, _, _)
AlignFrom(ps, headings, i, cursor, d) ==
    IF i > Len(headings) THEN d
    ELSE LET heading == headings[i]
             found_idx == ScanFor(ps, heading, cursor)
             end_idx == FindEnd(ps, headings, i + 1, found_idx)
         IN  IF found_idx = 0
             THEN AlignFrom(ps, headings, i + 1, cursor,
                            DictSet(d, heading, <<>>))
             ELSE AlignFrom(ps, headings, i + 1, NewCursor(found_idx, end_idx),
                            DictSet(d, heading,
                                    SectionText(ps, found_idx, end_idx)))

\* extract_contract_sections(contract_md, ref_headings) as one function
extract_contract_sections(contract_md, headings) ==
    AlignFrom(clean_text_preserve_headings(contract_md), headings, 1, 1,
              EmptyDict)


-----------------------------------------------------------------------------
(* Oracle responses *)

\* number of characters of one occurrence of a lexeme: single characters,
\* and the members "status":"Match", "status":"Modified",
\* "status":"Unknown" and "section":"T" of a JSON object
Width(c) ==
    CASE c = "status:Match" -> 16
      [] c = "status:Modified" -> 19
      [] c = "status:Unknown" -> 18
      [] c = "section:T" -> 13
      [] OTHER -> 1

Members == {"status:Match", "status:Modified", "status:Unknown", "section:T"}

Item(c, n) == [c |-> c, n |-> n]
Lex(c) == Item(c, Width(c))

\* the runs response texts are built from; "x" is any character that is
\* neither a brace, a comma nor white space
ItemPool ==
    { Lex("{"), Lex("}"), Lex(","), Lex(" "), Lex("\n"), Lex("x"), Item("x", 399),
      Lex("status:Match"), Lex("status:Modified"), Lex("status:Unknown"),
      Lex("section:T") }

ResponseTexts == SeqsUpTo(ItemPool, MaxItems)

RECURSIVE CharLen(_)
CharLen(content) ==
    IF content = <<>> THEN 0 ELSE Head(content).n + CharLen(Tail(content))

\* content[:k]
RECURSIVE Slice(_, _)
Slice(content, k) ==
    IF content = <<>> \/ k <= 0 THEN <<>>
    ELSE IF Head(content).n <= k
         THEN <<Head(content)>> \o Slice(Tail(content), k - Head(content).n)
         ELSE <<Item(Head(content).c, k)>>

\* content.replace("\n", " ")
ReplaceNewlines(content) ==
    [k \in 1..Len(content) |->
        IF content[k].c = "\n" THEN Item(" ", content[k].n) ELSE content[k]]

SummaryLimit == 400

\* re.search(r'\{.*\}', content, re.DOTALL): from the first "{" to the last
\* "}" after it; <<>> when there is no match
BraceSpan(content) ==
    LET opens == {k \in 1..Len(content) : content[k].c = "{"}
    IN  IF opens = {} THEN <<>>
        ELSE LET first == CHOOSE k \in opens : \A m \in opens : k <= m
                 closes == {k \in first + 1..Len(content) : content[k].c = "}"}
             IN  IF closes = {} THEN <<>>
                 ELSE LET last == CHOOSE k \in closes : \A m \in closes : m <= k
                      IN  SubSeq(content, first, last)

\* json.loads on a text that starts with "{" and ends with "}": an object is
\* "{" ws [member ws ("," ws member ws)*] "}"; anything else is a
\* JSONDecodeError. A repeated key keeps its last value.
IsSpace(it) == it.c \in {" ", "\n"}
IsMember(it) == it.c \in Members /\ it.n = Width(it.c)

RECURSIVE MembersWellFormed(_, _)
MembersWellFormed(toks, wantMember) ==
    IF toks = <<>> THEN ~wantMember
    ELSE IF wantMember
         THEN IsMember(Head(toks)) /\ MembersWellFormed(Tail(toks), FALSE)
         ELSE Head(toks).c = "," /\ MembersWellFormed(Tail(toks), TRUE)

MemberKey(c) == IF c = "section:T" THEN "section" ELSE "status"
MemberValue(c) ==
    CASE c = "status:Match" -> "Match"
      [] c = "status:Modified" -> "Modified"
      [] c = "status:Unknown" -> "Unknown"
      [] c = "section:T" -> <<"T">>

RECURSIVE ObjectOf(_)
ObjectOf(toks) ==
    IF toks = <<>> THEN EmptyDict
    ELSE LET last == toks[Len(toks)]
             rest == ObjectOf(SubSeq(toks, 1, Len(toks) - 1))
         IN  IF IsMember(last)
             THEN DictSet(rest, MemberKey(last.c), MemberValue(last.c))
             ELSE rest

json_loads(span) ==
    LET inner == SubSeq(span, 2, Len(span) - 1)
        toks == SelectSeq(inner, LAMBDA it : ~IsSpace(it))
    IN  IF toks = <<>> \/ MembersWellFormed(toks, TRUE)
        THEN [ok |-> TRUE, value |-> ObjectOf(toks)]
        ELSE [ok |-> FALSE, value |-> EmptyDict]

\* response.choices[0].message.content: a text, or None
Text(t) == [isNone |-> FALSE, text |-> t]
Null == [isNone |-> TRUE, text |-> <<>>]

\* the raw response is sliced without replacing its newlines
Fallback_KeepNewlines(section_label, content) ==
    [section |-> section_label,
     status |-> "Modified",
     difference_summary |-> Slice(content, SummaryLimit)]

\* the dict built at "result_json = {...}" when no JSON object is found or
\* json.loads raises JSONDecodeError
Fallback(section_label, content) ==
    [section |-> section_label,
     status |-> "Modified",
     difference_summary |-> Slice(ReplaceNewlines(content), SummaryLimit)]

\* compare_section_with_gpt from the line "content = ..." on: the returned
\* dict, or the exception that leaves the function
compare_section_with_gpt(ref_heading, content) ==
    IF content.isNone
    THEN [exc |-> "TypeError", result |-> EmptyDict]
    ELSE LET json_text == BraceSpan(content.text)
         IN  IF json_text # <<>>
             THEN LET loaded == json_loads(json_text)
                  IN  IF loaded.ok
                      THEN [exc |-> None, result |-> loaded.value]
                      ELSE [exc |-> None, result |-> Fallback(ref_heading, content.text)]
             ELSE [exc |-> None, result |-> Fallback(ref_heading, content.text)]


-----------------------------------------------------------------------------
(* State machine *)

\* the responses the oracle gives inside a validation run
OracleReplies ==
    { Text(<<Lex("{"), Lex("section:T"), Lex(","), Lex("status:Match"), Lex("}")>>),
      Text(<<Lex("{"), Lex("status:Modified"), Lex("}")>>),
      Text(<<Lex("{"), Lex("status:Unknown"), Lex("}")>>),
      Text(<<Lex("x"), Lex("\n"), Lex("x")>>),
      Null }

NoReport == [validation_status |-> None, modified_sections |-> <<>>]
NoCall == [called |-> FALSE, heading |-> <<>>, content |-> Null,
           out |-> [exc |-> None, result |-> EmptyDict]]

NoSegCall == [called |-> FALSE, md_text |-> <<>>, sections |-> <<>>]

NoResult == [isNone |-> TRUE, request |-> None, servicenow_metadata |-> None]

\* reset_state(): four keys are set, the others stay as they are
reset_state(state) ==
    [state EXCEPT !.processing_complete = FALSE,
                  !.result = NoResult,
                  !.file_name = None,
                  !.servicenow_metadata = None]

\* init_session_state() on a new session: reset_state() on a state in which
\* no key is set
NewSession ==
    reset_state([processing_complete |-> FALSE, result |-> NoResult,
                 file_name |-> None, servicenow_metadata |-> None,
                 page_count |-> None])

NoPipeline == [stage |-> "none", full_text |-> <<>>, service_md |-> <<>>,
               validation |-> NoReport, calls |-> 0]

AppIdle ==
    /\ seg_call = NoSegCall
    /\ session_state = NewSession
    /\ pipeline = NoPipeline

Idle ==
    /\ contract_md_text = <<>>
    /\ pc = "idle"
    /\ paragraphs = <<>>
    /\ align_i = 0
    /\ start_idx = 0
    /\ aligned_sections = EmptyDict
    /\ align_log = <<>>
    /\ cmp_i = 0
    /\ modified_results = <<>>
    /\ oracle_log = <<>>
    /\ report = NoReport
    /\ raised = None

\* the class body has read the reference file; no run is in progress
Init ==
    /\ ref_sections \in RefSectionLists
    /\ Idle
    /\ cmp_call = NoCall
    /\ AppIdle

\* the gate checked at entry is dropped
Validate_NoGate(text) ==
    /\ pc = "idle"
    /\ contract_md_text' = text
    /\ paragraphs' = clean_text_preserve_headings(text)
    /\ align_i' = 1
    /\ start_idx' = 1
    /\ aligned_sections' = EmptyDict
    /\ report' = NoReport
    /\ pc' = "align"
    /\ align_log' = <<>>
    /\ oracle_log' = <<>>
    /\ raised' = None
    /\ UNCHANGED <<ref_sections, cmp_i, modified_results, cmp_call>>

\* validate_service_description up to the call of extract_contract_sections:
\* the gate, then the reference headings, the paragraphs and the aligner's
\* initial state ("aligned_sections = {}", "start_idx = 0"). The histories
\* start with the run.
Validate(text) ==
    /\ pc = "idle"
    /\ contract_md_text' = text
    /\ IF ~GateSearch(text)
       THEN /\ report' = [validation_status |-> "Missing", modified_sections |-> <<>>]
            /\ pc' = "done"
            /\ UNCHANGED <<paragraphs, align_i, start_idx, aligned_sections>>
       ELSE /\ paragraphs' = clean_text_preserve_headings(text)
            /\ align_i' = 1
            /\ start_idx' = 1
            /\ aligned_sections' = EmptyDict
            /\ report' = NoReport
            /\ pc' = "align"
    /\ align_log' = <<>>
    /\ oracle_log' = <<>>
    /\ raised' = None
    /\ UNCHANGED <<ref_sections, cmp_i, modified_results, cmp_call>>

\* one iteration of "for i, heading in enumerate(ref_headings)"
AlignStep ==
    /\ pc = "align"
    /\ align_i <= Len(ref_headings)
    /\ LET heading == ref_headings[align_i]
           found_idx == ScanFor(paragraphs, heading, start_idx)
           end_idx == FindEnd(paragraphs, ref_headings, align_i + 1, found_idx)
           section_text == SectionText(paragraphs, found_idx, end_idx)
       IN  IF found_idx = 0
           THEN /\ aligned_sections' = DictSet(aligned_sections, heading, <<>>)
                /\ align_log' = Append(align_log,
                       [found_idx |-> 0, end_idx |-> 0, text |-> <<>>,
                        cursor |-> start_idx])
                /\ UNCHANGED start_idx
           ELSE /\ aligned_sections' = DictSet(aligned_sections, heading, section_text)
                /\ align_log' = Append(align_log,
                       [found_idx |-> found_idx, end_idx |-> end_idx,
                        text |-> section_text, cursor |-> start_idx])
                /\ start_idx' = NewCursor(found_idx, end_idx)
    /\ align_i' = align_i + 1
    /\ UNCHANGED <<ref_sections, contract_md_text, pc, paragraphs, cmp_i,
                   modified_results, oracle_log, report, raised, cmp_call>>

\* modified_results is kept across runs instead of starting empty
AlignReturn_KeepResults ==
    /\ pc = "align"
    /\ align_i > Len(ref_headings)
    /\ pc' = "loop"
    /\ cmp_i' = 1
    /\ UNCHANGED <<ref_sections, contract_md_text, paragraphs, align_i, start_idx,
                   aligned_sections, align_log, oracle_log, report, raised, cmp_call,
                   modified_results>>

\* "return aligned_sections", then "modified_results = []"
AlignReturn ==
    /\ pc = "align"
    /\ align_i > Len(ref_headings)
    /\ pc' = "loop"
    /\ cmp_i' = 1
    /\ modified_results' = <<>>
    /\ UNCHANGED <<ref_sections, contract_md_text, paragraphs, align_i, start_idx,
                   aligned_sections, align_log, oracle_log, report, raised, cmp_call>>

con_text == DictGet(aligned_sections, ref_sections[cmp_i].title, <<>>)

\* "if not con_text.strip(): continue"
SkipSection ==
    /\ pc = "loop"
    /\ cmp_i <= Len(ref_sections)
    /\ con_text = <<>>
    /\ cmp_i' = cmp_i + 1
    /\ UNCHANGED <<ref_sections, contract_md_text, pc, paragraphs, align_i, start_idx,
                   aligned_sections, align_log, modified_results, oracle_log,
                   report, raised, cmp_call>>

\* the "continue" for an empty section text is missing
OracleCall_Always ==
    /\ pc = "loop"
    /\ cmp_i <= Len(ref_sections)
    /\ pc' = "await"
    /\ oracle_log' = Append(oracle_log,
           [pos |-> cmp_i, heading |-> ref_sections[cmp_i].title,
            ref_text |-> ref_sections[cmp_i].content, con_text |-> con_text,
            state |-> "pending", reply |-> Null])
    /\ UNCHANGED <<ref_sections, contract_md_text, paragraphs, align_i, start_idx,
                   aligned_sections, align_log, cmp_i, modified_results,
                   report, raised, cmp_call>>

\* compare_section_with_gpt up to client.chat.completions.create: the request
\* is sent and the run blocks on it
OracleCall ==
    /\ pc = "loop"
    /\ cmp_i <= Len(ref_sections)
    /\ con_text # <<>>
    /\ pc' = "await"
    /\ oracle_log' = Append(oracle_log,
           [pos |-> cmp_i, heading |-> ref_sections[cmp_i].title,
            ref_text |-> ref_sections[cmp_i].content, con_text |-> con_text,
            state |-> "pending", reply |-> Null])
    /\ UNCHANGED <<ref_sections, contract_md_text, paragraphs, align_i, start_idx,
                   aligned_sections, align_log, cmp_i, modified_results,
                   report, raised, cmp_call>>

\* the verdict is put in front of the list
AppendResult_Front(results, parsed) == <<parsed>> \o results

\* modified_results.append(parsed)
AppendResult(results, parsed) == Append(results, parsed)

SetReply(log, state, reply) ==
    [log EXCEPT ![Len(log)].state = state, ![Len(log)].reply = reply]

\* the oracle answers: the rest of compare_section_with_gpt, then
\* 'if parsed.get("status") == "Modified": modified_results.append(parsed)'
OracleReturn(content) ==
    /\ pc = "await"
    /\ oracle_log' = SetReply(oracle_log, "returned", content)
    /\ LET out == compare_section_with_gpt(ref_sections[cmp_i].title, content)
       IN  IF out.exc # None
           THEN /\ raised' = out.exc
                /\ pc' = "raised"
                /\ UNCHANGED <<cmp_i, modified_results>>
           ELSE /\ modified_results' =
                      IF DictGet(out.result, "status", None) = "Modified"
                      THEN AppendResult(modified_results, out.result)
                      ELSE modified_results
                /\ cmp_i' = cmp_i + 1
                /\ pc' = "loop"
                /\ UNCHANGED raised
    /\ UNCHANGED <<ref_sections, contract_md_text, paragraphs, align_i, start_idx,
                   aligned_sections, align_log, report, cmp_call>>

\* the failure is caught and the loop goes on with the next section
OracleFail_Swallow ==
    /\ pc = "await"
    /\ oracle_log' = SetReply(oracle_log, "failed", Null)
    /\ cmp_i' = cmp_i + 1
    /\ pc' = "loop"
    /\ UNCHANGED <<ref_sections, contract_md_text, paragraphs, align_i, start_idx,
                   aligned_sections, align_log, modified_results,
                   report, raised, cmp_call>>

\* client.chat.completions.create raises (oracle unreachable, non-success
\* response); nothing catches it
OracleFail ==
    /\ pc = "await"
    /\ oracle_log' = SetReply(oracle_log, "failed", Null)
    /\ raised' = "TransportError"
    /\ pc' = "raised"
    /\ UNCHANGED <<ref_sections, contract_md_text, paragraphs, align_i, start_idx,
                   aligned_sections, align_log, cmp_i, modified_results,
                   report, cmp_call>>

\* the aggregate status is computed the wrong way round
Finish_Inverted ==
    /\ pc = "loop"
    /\ cmp_i > Len(ref_sections)
    /\ LET validation_status ==
               IF modified_results = <<>> THEN "Mismatch" ELSE "Correct"
       IN  report' = [validation_status |-> validation_status,
                      modified_sections |-> modified_results]
    /\ pc' = "done"
    /\ UNCHANGED <<ref_sections, contract_md_text, paragraphs, align_i, start_idx,
                   aligned_sections, align_log, cmp_i, modified_results,
                   oracle_log, raised, cmp_call>>

\* the loop is over: validation_status and the returned dict
Finish ==
    /\ pc = "loop"
    /\ cmp_i > Len(ref_sections)
    /\ LET validation_status ==
               IF modified_results = <<>> THEN "Correct" ELSE "Mismatch"
       IN  report' = [validation_status |-> validation_status,
                      modified_sections |-> modified_results]
    /\ pc' = "done"
    /\ UNCHANGED <<ref_sections, contract_md_text, paragraphs, align_i, start_idx,
                   aligned_sections, align_log, cmp_i, modified_results,
                   oracle_log, raised, cmp_call>>

\* the caller has the report or the exception; the run's locals are gone
Return ==
    /\ pc \in {"done", "raised"}
    /\ contract_md_text' = <<>>
    /\ pc' = "idle"
    /\ paragraphs' = <<>>
    /\ align_i' = 0
    /\ start_idx' = 0
    /\ aligned_sections' = EmptyDict
    /\ align_log' = <<>>
    /\ cmp_i' = 0
    /\ modified_results' = <<>>
    /\ oracle_log' = <<>>
    /\ report' = NoReport
    /\ raised' = None
    /\ UNCHANGED <<ref_sections, cmp_call>>

Next ==
    \/ (\E text \in ContractTexts : Validate(text)) /\ UNCHANGED app_vars
    \/ AlignStep /\ UNCHANGED app_vars
    \/ AlignReturn /\ UNCHANGED app_vars
    \/ SkipSection /\ UNCHANGED app_vars
    \/ OracleCall /\ UNCHANGED app_vars
    \/ (\E content \in OracleReplies : OracleReturn(content)) /\ UNCHANGED app_vars
    \/ OracleFail /\ UNCHANGED app_vars
    \/ Finish /\ UNCHANGED app_vars
    \/ Return /\ UNCHANGED app_vars

Spec == Init /\ [][Next]_vars

-----------------------------------------------------------------------------
(* Runs one after another on the same validator. Nothing of a finished run is
   cleared here: whatever its locals held is still there when the next run
   starts, so that a run reading a value it has not written itself would
   show. *)

\* contract texts of the successive runs
RunTexts == SeqsUpTo(BlockPool, MaxBlocks - 2)

RunReplies ==
    { Text(<<Lex("{"), Lex("status:Match"), Lex("}")>>),
      Text(<<Lex("{"), Lex("status:Modified"), Lex("}")>>) }

\* the caller has the report or the exception
ReturnToCaller ==
    /\ pc \in {"done", "raised"}
    /\ pc' = "idle"
    /\ UNCHANGED <<ref_sections, contract_md_text, paragraphs, align_i, start_idx,
                   aligned_sections, align_log, cmp_i, modified_results,
                   oracle_log, report, raised, cmp_call>>

NextRuns ==
    \/ (\E text \in RunTexts : Validate(text)) /\ UNCHANGED app_vars
    \/ AlignStep /\ UNCHANGED app_vars
    \/ AlignReturn /\ UNCHANGED app_vars
    \/ SkipSection /\ UNCHANGED app_vars
    \/ OracleCall /\ UNCHANGED app_vars
    \/ (\E content \in RunReplies : OracleReturn(content)) /\ UNCHANGED app_vars
    \/ OracleFail /\ UNCHANGED app_vars
    \/ Finish /\ UNCHANGED app_vars
    \/ ReturnToCaller /\ UNCHANGED app_vars

SpecRuns == Init /\ [][NextRuns]_vars

-----------------------------------------------------------------------------
(* compare_section_with_gpt on its own: the heading and the oracle's response
   content are the inputs *)

\* responses that hold a verdict object with text before and after it
FollowedVerdicts ==
    { pre \o <<Lex("{"), Lex(m), Lex("}")>> \o post :
        pre \in {<<>>, <<Lex("x")>>},
        m \in {"status:Match", "status:Modified"},
        post \in SeqsUpTo(ItemPool, MaxItems - 1) }

ResponseContents ==
    {Text(t) : t \in ResponseTexts \cup FollowedVerdicts} \cup {Null}

InitCompare ==
    /\ ref_sections = <<>>
    /\ Idle
    /\ cmp_call = NoCall
    /\ AppIdle

Compare(ref_heading, content) ==
    /\ ~cmp_call.called
    /\ cmp_call' = [called |-> TRUE, heading |-> ref_heading, content |-> content,
                    out |-> compare_section_with_gpt(ref_heading, content)]
    /\ UNCHANGED <<ref_sections, contract_md_text, pc, paragraphs, align_i, start_idx,
                   aligned_sections, align_log, cmp_i, modified_results, oracle_log,
                   report, raised>>

\* the caller has taken the verdict or the exception
CompareReturn ==
    /\ cmp_call.called
    /\ cmp_call' = NoCall
    /\ UNCHANGED <<ref_sections, contract_md_text, pc, paragraphs, align_i, start_idx,
                   aligned_sections, align_log, cmp_i, modified_results, oracle_log,
                   report, raised>>

NextCompare ==
    \/ (\E ref_heading \in {<<"Term">>}, content \in ResponseContents :
          Compare(ref_heading, content)) /\ UNCHANGED app_vars
    \/ CompareReturn /\ UNCHANGED app_vars

SpecCompare == InitCompare /\ [][NextCompare]_vars

-----------------------------------------------------------------------------
(* _extract_sections_from_text on its own, at the level of characters: the
   heading pattern '^(#{1,6})\s*(.+?)\s*$' looks at single characters, so a
   markdown text is here a sequence of characters. With these characters no
   comment, figure or boilerplate line can be written, so that
   clean_text_preserve_headings comes down to its final strip(). *)

MaxChars == 6           \* characters of a markdown text

MdChars == {"#", " ", "\n", "a"}

MdTexts == SeqsUpTo(MdChars, MaxChars)

IsWs(c) == c \in {" ", "\n"}

Drop(t, n) == SubSeq(t, n + 1, Len(t))

RECURSIVE lstrip(_)
lstrip(t) == IF t # <<>> /\ IsWs(t[1]) THEN lstrip(Tail(t)) ELSE t

RECURSIVE rstrip(_)
rstrip(t) ==
    IF t # <<>> /\ IsWs(t[Len(t)]) THEN rstrip(SubSeq(t, 1, Len(t) - 1)) ELSE t

\* str.strip()
strip(t) == rstrip(lstrip(t))

\* clean_text_preserve_headings on a text of MdChars
clean_chars(md_text) == strip(md_text)

\* number of '#', of whitespace characters, of characters '.' matches, in a
\* row from position i on
RECURSIVE HashRun(_, _)
HashRun(t, i) == IF i <= Len(t) /\ t[i] = "#" THEN 1 + HashRun(t, i + 1) ELSE 0

RECURSIVE WsRun(_, _)
WsRun(t, i) == IF i <= Len(t) /\ IsWs(t[i]) THEN 1 + WsRun(t, i + 1) ELSE 0

RECURSIVE DotRun(_, _)
DotRun(t, i) == IF i <= Len(t) /\ t[i] # "\n" THEN 1 + DotRun(t, i + 1) ELSE 0

\* '^' and '$' under re.M
AtBol(t, p) == p = 1 \/ t[p - 1] = "\n"

AtEol(t, x) == x = Len(t) + 1 \/ t[x] = "\n"

MaxOf(S) == CHOOSE x \in S : \A y \in S : y <= x

MinOf(S) == CHOOSE x \in S : \A y \in S : x <= y

\* ends (exclusive) that '(.+?)\s*$' can give a title starting at q
TitleEnds(t, q) ==
    {e \in (q + 1)..(q + DotRun(t, q)) :
        \E r \in 0..WsRun(t, e) : AtEol(t, e + r)}

\* the ways '(#{1,6})\s*' can be taken at p so that the rest matches
HeadingSplits(t, p) ==
    {kw \in (1..6) \X (0..Len(t)) :
        /\ kw[1] <= HashRun(t, p)
        /\ kw[2] <= WsRun(t, p + kw[1])
        /\ TitleEnds(t, p + kw[1] + kw[2]) # {}}

\* the match object of the heading pattern at p: greedy '#{1,6}', then greedy
\* '\s*', then the shortest title, then the longest trailing whitespace
HeadingMatchAt(t, p) ==
    IF ~AtBol(t, p) \/ HeadingSplits(t, p) = {}
    THEN [ok |-> FALSE, start |-> 0, title |-> <<>>, end |-> 0]
    ELSE LET k == MaxOf({kw[1] : kw \in HeadingSplits(t, p)})
             w == MaxOf({kw[2] : kw \in {x \in HeadingSplits(t, p) : x[1] = k}})
             q == p + k + w
             e == MinOf(TitleEnds(t, q))
             r == MaxOf({x \in 0..WsRun(t, e) : AtEol(t, e + x)})
         IN  [ok |-> TRUE, start |-> p, title |-> SubSeq(t, q, e - 1),
              end |-> e + r]

\* re.finditer: the matches from position pos on, left to right, not overlapping
RECURSIVE finditer(_, _)
finditer(t, pos) ==
    IF pos > Len(t) THEN <<>>
    ELSE LET h == HeadingMatchAt(t, pos)
         IN  IF h.ok THEN <<h>> \o finditer(t, h.end)
             ELSE finditer(t, pos + 1)

\* as extract_sections_from_text, but each body is cut from the start of its
\* heading line
extract_sections_FromHeadingStart(md_text) ==
    LET clean_text == clean_chars(md_text)
        headings == finditer(clean_text, 1)
        end(i) == IF i < Len(headings) THEN headings[i + 1].start
                  ELSE Len(clean_text) + 1
    IN  [i \in 1..Len(headings) |->
            [title |-> strip(headings[i].title),
             content |-> strip(SubSeq(clean_text, headings[i].start, end(i) - 1))]]

\* _extract_sections_from_text: the sections as <<[title, content], ...>>
extract_sections_from_text(md_text) ==
    LET clean_text == clean_chars(md_text)
        headings == finditer(clean_text, 1)
        end(i) == IF i < Len(headings) THEN headings[i + 1].start
                  ELSE Len(clean_text) + 1
    IN  [i \in 1..Len(headings) |->
            [title |-> strip(headings[i].title),
             content |-> strip(SubSeq(clean_text, headings[i].end, end(i) - 1))]]

validator_vars == <<ref_sections, contract_md_text, pc, paragraphs, align_i,
                    start_idx, aligned_sections, align_log, cmp_i,
                    modified_results, oracle_log, report, raised, cmp_call>>

InitSegment ==
    /\ ref_sections = <<>>
    /\ Idle
    /\ cmp_call = NoCall
    /\ AppIdle

Segment(md_text) ==
    /\ ~seg_call.called
    /\ seg_call' = [called |-> TRUE, md_text |-> md_text,
                    sections |-> extract_sections_from_text(md_text)]
    /\ UNCHANGED <<validator_vars, session_state, pipeline>>

\* the caller has taken the sections
SegmentReturn ==
    /\ seg_call.called
    /\ seg_call' = NoSegCall
    /\ UNCHANGED <<validator_vars, session_state, pipeline>>

NextSegment ==
    \/ \E md_text \in MdTexts : Segment(md_text)
    \/ SegmentReturn

SpecSegment == InitSegment /\ [][NextSegment]_vars

-----------------------------------------------------------------------------
(* app.py: one browser session. Each press of a button runs main() from top to
   bottom; what it leaves in st.session_state is what the next run of the
   script sees and renders. *)

\* request numbers typed into the sidebar, each with a record in ServiceNow
RequestIds == {"REQ1", "REQ2", "REQ3"}

\* sn.get_record(request_id)[1]: the cleaned metadata of the record
MetadataOf(request_id) ==
    CASE request_id = "REQ1" -> "metadata of REQ1"
      [] request_id = "REQ2" -> "metadata of REQ2"
      [] request_id = "REQ3" -> "metadata of REQ3"

\* sn.download_attachment_bytes(sys_id)["file_name"]
FileNameOf(request_id) ==
    CASE request_id = "REQ1" -> "REQ1.pdf"
      [] request_id = "REQ2" -> "REQ2.pdf"
      [] request_id = "REQ3" -> "REQ3.pdf"

\* extractor.extract_text(pdf_bytes)[1]
PagesOf(request_id) ==
    CASE request_id = "REQ1" -> "pages of REQ1.pdf"
      [] request_id = "REQ2" -> "pages of REQ2.pdf"
      [] request_id = "REQ3" -> "pages of REQ3.pdf"

\* how far a fetch gets: the steps of the fetch branch and of run_pipeline in
\* the order of the code, each of which can end the script run (st.stop()) or
\* raise into "except Exception"
FetchSteps == <<"get_record", "download_attachment_bytes", "extract_text",
                "analyze", "validate_service_description", "done">>

StepIndex(step) == CHOOSE k \in 1..Len(FetchSteps) : FetchSteps[k] = step

\* the step at which the fetch stops has been reached after `step` succeeded
Passed(stops_at, step) == StepIndex(stops_at) > StepIndex(step)

\* the "Fetch & Analyze" button with a request number: the fetch branch of
\* main() and run_pipeline, up to the step at which it stops
FetchAnalyze(request_id, stops_at) ==
    /\ LET s1 == IF Passed(stops_at, "get_record")
                 THEN [session_state EXCEPT
                          !.servicenow_metadata = MetadataOf(request_id)]
                 ELSE session_state
           s2 == IF Passed(stops_at, "download_attachment_bytes")
                 THEN [s1 EXCEPT !.file_name = FileNameOf(request_id)]
                 ELSE s1
           s3 == IF Passed(stops_at, "extract_text")
                 THEN [s2 EXCEPT !.page_count = PagesOf(request_id)]
                 ELSE s2
           s4 == IF stops_at = "done"
                 THEN [s3 EXCEPT
                          !.result = [isNone |-> FALSE, request |-> request_id,
                                      servicenow_metadata |-> s3.servicenow_metadata],
                          !.processing_complete = TRUE]
                 ELSE s3
       IN  session_state' = s4
    /\ UNCHANGED <<validator_vars, seg_call, pipeline>>

\* the "Clear" button: reset_state(), then the script is run again
Clear ==
    /\ session_state' = reset_state(session_state)
    /\ UNCHANGED <<validator_vars, seg_call, pipeline>>

InitUI ==
    /\ ref_sections = <<>>
    /\ Idle
    /\ cmp_call = NoCall
    /\ AppIdle

NextUI ==
    \/ \E request_id \in RequestIds, k \in 1..Len(FetchSteps) :
          FetchAnalyze(request_id, FetchSteps[k])
    \/ Clear

SpecUI == InitUI /\ [][NextUI]_vars

-----------------------------------------------------------------------------
(* run_pipeline: extract_service_description on the extracted text, then the
   validator on what it returns, then the report stored in the result *)

\* the blocks extracted document texts are built from
PipelineBlocks ==
    { Para(1, <<"TERM">>),
      Para(0, <<"lorem">>),
      Para(0, <<"see", "ATTACHMENT", "1", ":", "Service", "Description">>),
      Para(1, <<"Attachment", "2">>),
      Comment(<<"Attachment", "1", "-", "Service", "Description">>) }

PipelineTexts == SeqsUpTo(PipelineBlocks, MaxBlocks)

\* "*Service Description not found*" and "*Service Description is empty*"
NotFoundText == <<Para(0, <<"*", "Service", "Description", "not", "found", "*">>)>>

EmptyText == <<Para(0, <<"*", "Service", "Description", "is", "empty", "*">>)>>

\* re.search(start_pattern, md_text, flags=re.I).start(): the first token at
\* which the pattern matches, 0 when it matches nowhere
RECURSIVE StartMatch(_, _)
StartMatch(ws, k) ==
    IF k > Len(ws) THEN 0
    ELSE IF GateMatchAt(ws, k) THEN k ELSE StartMatch(ws, k + 1)

\* re.search(r"attachment\s*2", md_text[start_index:], flags=re.I): the first
\* token from k on at which it matches, Len(ws) + 1 (the end of the text) when
\* there is none
RECURSIVE EndMatch(_, _)
EndMatch(ws, k) ==
    IF k > Len(ws) THEN Len(ws) + 1
    ELSE IF Lower(ws[k]) = "attachment" /\ k + 1 <= Len(ws) /\ ws[k + 1] = "2"
         THEN k
         ELSE EndMatch(ws, k + 1)

\* the number of tokens of the text before its block b
RECURSIVE TokensBefore(_, _)
TokensBefore(text, b) ==
    IF b <= 1 THEN 0
    ELSE TokensBefore(text, b - 1) + Len(RawWords(text[b - 1]))

\* a block cut by the slice: what is left of it is plain text, a heading when
\* the "#" is still in front
Piece(toks) == IF toks[1] = "#" THEN Para(1, Tail(toks)) ELSE Para(0, toks)

\* md_text[lo:hi].strip() as blocks: the tokens lo .. hi-1 of the text, block
\* by block
Slice_Blocks(text, lo, hi) ==
    LET ws == RawText(text)
        first(b) == TokensBefore(text, b) + 1
        last(b) == TokensBefore(text, b) + Len(RawWords(text[b]))
        from(b) == IF lo > first(b) THEN lo ELSE first(b)
        to(b) == IF hi - 1 < last(b) THEN hi - 1 ELSE last(b)
        cut(b) == IF from(b) > to(b) THEN Para(0, <<>>)
                  ELSE IF from(b) = first(b) /\ to(b) = last(b) THEN text[b]
                  ELSE Piece(SubSeq(ws, from(b), to(b)))
    IN  SelectSeq([b \in 1..Len(text) |-> cut(b)],
                  LAMBDA blk : blk # Para(0, <<>>))

\* the slice a text gives when it is cut from token start_index on
ServiceDescriptionFrom(md_text, start_index) ==
    LET ws == RawText(md_text)
        end_index == EndMatch(ws, start_index)
        extracted == Slice_Blocks(md_text, start_index, end_index)
    IN  IF extracted # <<>> THEN extracted ELSE EmptyText

\* the slice starts behind the marker ("capture content AFTER heading")
extract_service_description_AfterMarker(md_text) ==
    LET ws == RawText(md_text)
        start == StartMatch(ws, 1)
    IN  IF start = 0 THEN NotFoundText
        ELSE ServiceDescriptionFrom(md_text, SkipPunct(ws, start + 2) + 2)

\* DocumentExtractor.extract_service_description
extract_service_description(md_text) ==
    LET ws == RawText(md_text)
        start == StartMatch(ws, 1)
    IN  IF start = 0 THEN NotFoundText
        ELSE ServiceDescriptionFrom(md_text, start)

\* extract_text has returned full_text; service_md is cut out of it
PipelineExtract(full_text) ==
    /\ pipeline.stage = "none"
    /\ pc = "idle"
    /\ pipeline' = [pipeline EXCEPT
                       !.stage = "extracted",
                       !.full_text = full_text,
                       !.service_md = extract_service_description(full_text)]
    /\ UNCHANGED <<validator_vars, seg_call, session_state>>

\* analyzer.analyze(full_text) raises: run_pipeline is left, nothing is stored
PipelineAnalyzeFail ==
    /\ pipeline.stage = "extracted"
    /\ pipeline' = NoPipeline
    /\ UNCHANGED <<validator_vars, seg_call, session_state>>

\* analyzer.analyze(full_text) has returned;
\* validator.validate_service_description(service_md) is entered
PipelineValidate ==
    /\ pipeline.stage = "extracted"
    /\ Validate(pipeline.service_md)
    /\ pipeline' = [pipeline EXCEPT !.stage = "validating"]
    /\ UNCHANGED <<seg_call, session_state>>

\* the steps of the validator inside run_pipeline
PipelineValidatorStep ==
    /\ pipeline.stage = "validating"
    /\ \/ AlignStep
       \/ AlignReturn
       \/ SkipSection
       \/ OracleCall
       \/ \E content \in RunReplies : OracleReturn(content)
       \/ OracleFail
       \/ Finish
    /\ UNCHANGED app_vars

\* result_json["service_description_validation"] = validation
PipelineStore ==
    /\ pipeline.stage = "validating"
    /\ pc = "done"
    /\ pipeline' = [pipeline EXCEPT !.stage = "stored",
                                    !.validation = report,
                                    !.calls = Len(oracle_log)]
    /\ Return
    /\ UNCHANGED <<seg_call, session_state>>

\* the validator has raised: run_pipeline is left, nothing is stored
PipelineRaise ==
    /\ pipeline.stage = "validating"
    /\ pc = "raised"
    /\ pipeline' = NoPipeline
    /\ Return
    /\ UNCHANGED <<seg_call, session_state>>

\* run_pipeline returns
PipelineReturn ==
    /\ pipeline.stage = "stored"
    /\ pipeline' = NoPipeline
    /\ UNCHANGED <<validator_vars, seg_call, session_state>>

NextPipeline ==
    \/ \E full_text \in PipelineTexts : PipelineExtract(full_text)
    \/ PipelineAnalyzeFail
    \/ PipelineValidate
    \/ PipelineValidatorStep
    \/ PipelineStore
    \/ PipelineRaise
    \/ PipelineReturn

SpecPipeline == Init /\ [][NextPipeline]_vars

-----------------------------------------------------------------------------
(* Vocabulary of the properties *)

\* the governing-clause marker occurs in the raw text: "attachment", "1",
\* then only non-alphanumeric tokens, then "service", "description", in any
\* letter case
MarkerOccurs(text) ==
    LET ws == RawText(text)
    IN  \E a \in 1..Len(ws), b \in 1..Len(ws) :
            /\ a + 1 < b
            /\ b + 1 <= Len(ws)
            /\ Lower(ws[a]) = "attachment"
            /\ ws[a + 1] = "1"
            /\ \A k \in (a + 2)..(b - 1) : ws[k] \in Punct
            /\ Lower(ws[b]) = "service"
            /\ Lower(ws[b + 1]) = "description"

RunStarted == pc \in {"align", "loop", "await", "done", "raised"}

\* some paragraph of the contract, as the aligner sees it, is the heading
HeadingOccurs(text, heading) ==
    \E k \in 1..Len(clean_text_preserve_headings(text)) :
        p_clean(clean_text_preserve_headings(text)[k]) = LowerWords(heading)

\* the verdict the comparator returned for a logged oracle call
VerdictOf(call) == compare_section_with_gpt(call.heading, call.reply).result
StatusOf(d) == DictGet(d, "status", None)

-----------------------------------------------------------------------------
(* C1 *)

\* C1 (gate precedence): a run on a contract text in which the governing-clause
\* marker does not occur has returned exactly validation_status "Missing" with
\* an empty modified_sections, whatever the text holds, and has run neither
\* the aligner (no paragraph split, no heading iteration) nor the oracle
\* (no call).
C1_GatePrecedence ==
    (RunStarted /\ ~MarkerOccurs(contract_md_text)) =>
        /\ pc = "done"
        /\ report = [validation_status |-> "Missing", modified_sections |-> <<>>]
        /\ raised = None
        /\ oracle_log = <<>>
        /\ align_log = <<>>
        /\ align_i = 0
        /\ paragraphs = <<>>

\* a marker-less contract that does hold a reference heading followed by text
C1_Witness ==
    /\ pc = "done"
    /\ ~MarkerOccurs(contract_md_text)
    /\ report.validation_status = "Missing"
    /\ Len(ref_sections) > 0
    /\ HeadingOccurs(contract_md_text, ref_headings[1])
    /\ Len(clean_text_preserve_headings(contract_md_text)) >= 2

-----------------------------------------------------------------------------
(* C2 *)

ModifiedCalls == SelectSeq(oracle_log, LAMBDA c : StatusOf(VerdictOf(c)) = "Modified")

\* C2 (aggregate consistency): a returned report that is not "Missing" is
\* "Mismatch" exactly when modified_sections is non-empty and "Correct"
\* otherwise, and modified_sections holds exactly the verdicts of the compared
\* sections whose status is "Modified": one entry per such comparison, none
\* for a comparison judged otherwise.
C2_AggregateConsistency ==
    (pc = "done" /\ report.validation_status # "Missing") =>
        /\ report.validation_status \in {"Correct", "Mismatch"}
        /\ (report.validation_status = "Mismatch") <=> (report.modified_sections # <<>>)
        /\ (report.validation_status = "Correct") <=> (report.modified_sections = <<>>)
        /\ Len(report.modified_sections) = Len(ModifiedCalls)
        /\ \A k \in 1..Len(report.modified_sections) :
               /\ StatusOf(report.modified_sections[k]) = "Modified"
               /\ report.modified_sections[k] = VerdictOf(ModifiedCalls[k])

\* one section judged "Match" and one judged "Modified" in the same run
C2_Witness ==
    /\ pc = "done"
    /\ report.validation_status = "Mismatch"
    /\ Len(oracle_log) = 2
    /\ Len(report.modified_sections) = 1
    /\ \E k \in 1..2 : StatusOf(VerdictOf(oracle_log[k])) = "Match"


-----------------------------------------------------------------------------
(* C3 *)

\* the response holds a JSON object whose status is "Match" or "Modified"
Interpretable(content) ==
    /\ ~content.isNone
    /\ BraceSpan(content.text) # <<>>
    /\ json_loads(BraceSpan(content.text)).ok
    /\ StatusOf(json_loads(BraceSpan(content.text)).value) \in {"Match", "Modified"}

InterpretableAs(content, status) ==
    /\ Interpretable(content)
    /\ StatusOf(json_loads(BraceSpan(content.text)).value) = status

ReturnedCalls == SelectSeq(oracle_log, LAMBDA c : c.state = "returned")

\* C3 (conservative failure policy), as claimed: in a completed run every
\* compared section whose oracle response is a text other than an interpretable
\* "Match" verdict has an entry in modified_sections, so a response that cannot
\* be interpreted never lets the run end as "Correct".
C3_ConservativeFailure ==
    (pc = "done" /\ report.validation_status # "Missing") =>
        /\ Len(report.modified_sections) =
              Len(SelectSeq(ReturnedCalls,
                            LAMBDA c : ~InterpretableAs(c.reply, "Match")))
        /\ (\E k \in 1..Len(ReturnedCalls) : ~Interpretable(ReturnedCalls[k].reply))
              => report.validation_status # "Correct"

-----------------------------------------------------------------------------
(* C4 *)

\* the character at position pos of a response text: its lexeme and the
\* offset inside the lexeme's occurrence
RECURSIVE CharAt(_, _)
CharAt(content, pos) ==
    IF pos <= Head(content).n
    THEN <<Head(content).c,
           IF Head(content).c \in Members THEN pos ELSE 1>>
    ELSE CharAt(Tail(content), pos - Head(content).n)

Min(a, b) == IF a <= b THEN a ELSE b

NoBraceText(text) ==
    ~\E a \in 1..Len(text), b \in 1..Len(text) :
        a < b /\ text[a].c = "{" /\ text[b].c = "}"

\* C4 (malformed-oracle fallback): when the response text holds no
\* brace-delimited text, or the brace-delimited text does not parse as JSON,
\* compare_section_with_gpt returns, without raising, a verdict whose status is
\* "Modified", whose section is the reference heading compared, and whose
\* difference_summary is the first min(400, length) characters of the
\* response, each newline replaced by a space and every other character kept.
C4_MalformedFallback ==
    (/\ cmp_call.called
     /\ ~cmp_call.content.isNone
     /\ \/ NoBraceText(cmp_call.content.text)
        \/ ~json_loads(BraceSpan(cmp_call.content.text)).ok) =>
        LET text == cmp_call.content.text
            verdict == cmp_call.out.result
        IN  /\ cmp_call.out.exc = None
            /\ DOMAIN verdict = {"section", "status", "difference_summary"}
            /\ verdict.status = "Modified"
            /\ verdict.section = cmp_call.heading
            /\ CharLen(verdict.difference_summary) = Min(SummaryLimit, CharLen(text))
            /\ \A pos \in 1..CharLen(verdict.difference_summary) :
                  CharAt(verdict.difference_summary, pos) =
                      IF CharAt(text, pos)[1] = "\n"
                      THEN <<" ", 1>>
                      ELSE CharAt(text, pos)

\* a response of more than 400 characters with a newline among the first 400
\* and a brace-delimited text that is no JSON
C4_Witness ==
    /\ cmp_call.called
    /\ ~cmp_call.content.isNone
    /\ BraceSpan(cmp_call.content.text) # <<>>
    /\ ~json_loads(BraceSpan(cmp_call.content.text)).ok
    /\ CharLen(cmp_call.content.text) > SummaryLimit
    /\ cmp_call.out.result.status = "Modified"

\* a response without braces, longer than 400 characters, starting with a
\* newline
C4_WitnessNoBraces ==
    /\ cmp_call.called
    /\ ~cmp_call.content.isNone
    /\ NoBraceText(cmp_call.content.text)
    /\ CharLen(cmp_call.content.text) > SummaryLimit
    /\ cmp_call.content.text[1].c = "\n"

-----------------------------------------------------------------------------
(* C5 *)

\* C5 (no exception for malformed output), as claimed: an exception leaves the
\* run only when the oracle call itself failed; a call that returned, whatever
\* its message content, text or None, ends in a verdict.
C5_NeverRaisesOnContent ==
    /\ cmp_call.called => cmp_call.out.exc = None
    /\ pc = "raised" =>
          /\ oracle_log # <<>>
          /\ oracle_log[Len(oracle_log)].state = "failed"
    /\ \A k \in 1..Len(oracle_log) :
          oracle_log[k].state = "returned" =>
              compare_section_with_gpt(oracle_log[k].heading, oracle_log[k].reply).exc = None


-----------------------------------------------------------------------------
(* C6 *)

Aligned == pc \in {"loop", "await", "done", "raised"} /\ align_i > Len(ref_sections)

\* C6 (aligner output shape), as claimed: the mapping returned by
\* extract_contract_sections has one entry per reference heading position,
\* and the entry read for a position is the text written for that position,
\* an empty text when the heading was not found.
C6_OneSectionPerPosition ==
    Aligned =>
        /\ Cardinality(DOMAIN aligned_sections) = Len(ref_sections)
        /\ \A i \in 1..Len(ref_sections) :
              /\ ref_headings[i] \in DOMAIN aligned_sections
              /\ aligned_sections[ref_headings[i]] = align_log[i].text

-----------------------------------------------------------------------------
(* C7 *)

Matched(i) == align_log[i].found_idx # 0

AlignOrder ==
    \A i \in 1..Len(align_log), j \in 1..Len(align_log) :
        (i < j /\ Matched(i) /\ Matched(j)) =>
            /\ align_log[i].found_idx < align_log[j].found_idx
            /\ align_log[i].end_idx <= align_log[j].found_idx

\* C7 (alignment monotonicity): headings matched at positions i < j of the
\* reference are matched at contract paragraphs p_i < p_j, no heading is
\* matched before the end position of an earlier matched section, and within
\* a run the scan cursor start_idx never decreases.
C7_AlignmentMonotonic ==
    /\ []AlignOrder
    /\ [][pc' # "idle" => start_idx' >= start_idx]_vars

\* two headings matched in one run, the same title at both positions
C7_Witness ==
    /\ Len(align_log) >= 2
    /\ Matched(1) /\ Matched(2)
    /\ ref_headings[1] = ref_headings[2]

-----------------------------------------------------------------------------
(* C8 *)

Called(i) == \E k \in 1..Len(oracle_log) : oracle_log[k].pos = i

\* C8 (absence representation): after alignment, a reference heading that no
\* contract paragraph matches has an aligned section with empty text; the
\* aggregator calls the oracle for no section whose aligned text is empty,
\* and every verdict of the run comes from an oracle call.
C8_AbsenceRepresentation ==
    Aligned =>
        /\ \A i \in 1..Len(ref_sections) :
              /\ ~HeadingOccurs(contract_md_text, ref_headings[i]) =>
                    /\ ref_headings[i] \in DOMAIN aligned_sections
                    /\ aligned_sections[ref_headings[i]] = <<>>
                    /\ align_log[i].text = <<>>
              /\ DictGet(aligned_sections, ref_headings[i], <<>>) = <<>> => ~Called(i)
        /\ Len(modified_results) <= Len(ReturnedCalls)
        /\ Len(report.modified_sections) <= Len(ReturnedCalls)

\* a completed run with one heading absent from the contract and another
\* matched with nothing under it
C8_Witness ==
    /\ pc = "done"
    /\ Aligned
    /\ \E i \in 1..Len(ref_sections) : ~HeadingOccurs(contract_md_text, ref_headings[i])
    /\ \E j \in 1..Len(ref_sections) : Matched(j) /\ align_log[j].text = <<>>
    /\ \E j \in 1..Len(ref_sections) : Called(j)

-----------------------------------------------------------------------------
(* C9 *)

\* C9 (run atomicity on transport failure): a failed oracle call is the last
\* call of its run, which then holds one raised error and no report; no
\* section is called twice; and a report exists only for a run in which every
\* call returned and every reference section was gone through.
C9_RunAtomicity ==
    /\ \A k \in 1..Len(oracle_log) :
          oracle_log[k].state = "failed" =>
              /\ k = Len(oracle_log)
              /\ pc = "raised"
              /\ raised = "TransportError"
    /\ pc = "raised" => (report = NoReport /\ raised # None)
    /\ \A j \in 1..Len(oracle_log), k \in 1..Len(oracle_log) :
          j # k => oracle_log[j].pos # oracle_log[k].pos
    /\ report # NoReport =>
          /\ pc = "done"
          /\ raised = None
          /\ \A k \in 1..Len(oracle_log) : oracle_log[k].state = "returned"
          /\ report.validation_status # "Missing" => cmp_i = Len(ref_sections) + 1

\* the first call failed while a later section had text to compare
C9_Witness ==
    /\ pc = "raised"
    /\ raised = "TransportError"
    /\ report = NoReport
    /\ \E i \in 1..Len(ref_sections) :
          /\ i > oracle_log[Len(oracle_log)].pos
          /\ DictGet(aligned_sections, ref_headings[i], <<>>) # <<>>

-----------------------------------------------------------------------------
(* C10 *)

\* C10 (sequential comparison in reference order): at any time only the last
\* oracle call can be unanswered, and calls are made in increasing reference
\* position; in a run that passed the gate and completed, the sections called
\* are exactly those whose aligned text is non-empty, each once, with its own
\* heading, and modified_sections lists the "Modified" verdicts in call order.
C10_SequentialInOrder ==
    /\ \A k \in 1..Len(oracle_log) :
          /\ k < Len(oracle_log) => oracle_log[k].state = "returned"
          /\ oracle_log[k].state = "pending" => pc = "await"
    /\ \A j \in 1..Len(oracle_log), k \in 1..Len(oracle_log) :
          j < k => oracle_log[j].pos < oracle_log[k].pos
    /\ (pc = "done" /\ report.validation_status # "Missing") =>
          /\ {oracle_log[k].pos : k \in 1..Len(oracle_log)} =
                {i \in 1..Len(ref_sections) :
                    DictGet(aligned_sections, ref_headings[i], <<>>) # <<>>}
          /\ \A k \in 1..Len(oracle_log) :
                /\ oracle_log[k].heading = ref_headings[oracle_log[k].pos]
                /\ oracle_log[k].ref_text = ref_sections[oracle_log[k].pos].content
          /\ report.modified_sections =
                [k \in 1..Len(ModifiedCalls) |-> VerdictOf(ModifiedCalls[k])]

\* two sections compared in one run, both reported, under different headings
C10_Witness ==
    /\ pc = "done"
    /\ Len(oracle_log) = 2
    /\ Len(report.modified_sections) = 2
    /\ oracle_log[1].heading # oracle_log[2].heading
    /\ report.modified_sections[1] # report.modified_sections[2]

-----------------------------------------------------------------------------
(* Segmentation *)

\* the text is its own normal form
Normalized(t) == clean_chars(t) = t

\* where the first heading of the text starts
FirstHeadingStart(t) == MinOf({p \in 1..Len(t) : HeadingMatchAt(t, p).ok})

RECURSIVE Concat(_)
Concat(sections) ==
    IF sections = <<>> THEN <<>>
    ELSE sections[1].title \o sections[1].content \o Concat(Tail(sections))

StartsWith(t, prefix) ==
    Len(prefix) <= Len(t) /\ SubSeq(t, 1, Len(prefix)) = prefix

\* t is the sections' titles and bodies in order, each title behind one to six
\* '#', with whitespace and nothing else around each title and each body
RECURSIVE Reassembles(_, _)
Reassembles(t, sections) ==
    IF sections = <<>> THEN t = <<>>
    ELSE \E k \in 1..6 :
            /\ k <= HashRun(t, 1)
            /\ LET t1 == lstrip(Drop(t, k))
                   t2 == lstrip(Drop(t1, Len(sections[1].title)))
                   t3 == lstrip(Drop(t2, Len(sections[1].content)))
               IN  /\ StartsWith(t1, sections[1].title)
                   /\ StartsWith(t2, sections[1].content)
                   /\ Reassembles(t3, Tail(sections))

SegmentedWithHeading ==
    /\ seg_call.called
    /\ Normalized(seg_call.md_text)
    /\ seg_call.sections # <<>>

\* C11 as stated: for a normalized text with at least one heading line, the
\* titles and bodies of the returned sections, concatenated in order, are
\* exactly the text from its first heading on.
C11_ExactReconstruction ==
    SegmentedWithHeading =>
        Concat(seg_call.sections) =
            Drop(seg_call.md_text, FirstHeadingStart(seg_call.md_text) - 1)

\* C11 amended: for a normalized text with at least one heading line, the text
\* from its first heading on is the titles and bodies of the returned
\* sections in order, each title behind its one to six '#' markers and with
\* only whitespace around each title and each body: apart from those markers
\* and that whitespace no character is dropped, duplicated or moved.
C11_SegmentationTotality ==
    SegmentedWithHeading =>
        Reassembles(Drop(seg_call.md_text,
                         FirstHeadingStart(seg_call.md_text) - 1),
                    seg_call.sections)

\* a text with a preamble, a heading and a body under it
C11_Witness ==
    /\ SegmentedWithHeading
    /\ FirstHeadingStart(seg_call.md_text) > 1
    /\ seg_call.sections[1].content # <<>>

-----------------------------------------------------------------------------
(* Runs and the reference *)

\* the section loop of validate_service_description as a function of the
\* aligned sections and of the oracle's successive responses
RECURSIVE Aggregate(_, _, _, _, _)
Aggregate(sections, aligned, replies, i, results) ==
    IF i > Len(sections) THEN results
    ELSE IF DictGet(aligned, sections[i].title, <<>>) = <<>> \/ replies = <<>>
    THEN Aggregate(sections, aligned, replies, i + 1, results)
    ELSE LET parsed == compare_section_with_gpt(sections[i].title,
                                                Head(replies)).result
         IN  Aggregate(sections, aligned, Tail(replies), i + 1,
                       IF StatusOf(parsed) = "Modified"
                       THEN Append(results, parsed) ELSE results)

\* the report of a completed run as a function of the reference sections, the
\* run's contract text and the oracle's responses to the run's calls
RunReport(sections, text, replies) ==
    IF ~GateSearch(text)
    THEN [validation_status |-> "Missing", modified_sections |-> <<>>]
    ELSE LET titles == [k \in 1..Len(sections) |-> sections[k].title]
             results == Aggregate(sections,
                                  extract_contract_sections(text, titles),
                                  replies, 1, <<>>)
         IN  [validation_status |->
                  IF results = <<>> THEN "Correct" ELSE "Mismatch",
              modified_sections |-> results]

RepliesOf(log) == [k \in 1..Len(log) |-> log[k].reply]

-----------------------------------------------------------------------------
(* The aligner's bodies *)

\* paragraph j is, case-insensitively, the reference heading at position k
IsHeadingParagraph(j, k) ==
    p_clean(paragraphs[j]) = LowerWords(ref_headings[k])

\* the reference positions after i whose heading has a paragraph after p
LaterHeadingsAfter(i, p) ==
    {k \in (i + 1)..Len(ref_headings) :
        \E j \in (p + 1)..Len(paragraphs) : IsHeadingParagraph(j, k)}

\* where the body of the heading at position i, matched at paragraph p, ends
BodyEnd(i, p) ==
    IF LaterHeadingsAfter(i, p) = {} THEN Len(paragraphs) + 1
    ELSE LET k == MinOf(LaterHeadingsAfter(i, p))
         IN  MinOf({j \in (p + 1)..Len(paragraphs) : IsHeadingParagraph(j, k)})

\* the cursor the loop has after the iteration for position i
CursorAfter(i) ==
    IF i < Len(align_log) THEN align_log[i + 1].cursor ELSE start_idx

\* C13 (section body extent): when the heading at reference position i has
\* been matched at paragraph p, its body is the paragraphs p+1 .. e-1, where e
\* is the first paragraph after p that matches heading k, k being the first
\* heading after i in reference order with any matching paragraph after p, and
\* e is the end of the document when no later heading matches after p; the
\* cursor for the next heading is e.
C13_SectionBodyExtent ==
    \A i \in 1..Len(align_log) :
        LET p == align_log[i].found_idx
        IN  p # 0 =>
              /\ align_log[i].end_idx = BodyEnd(i, p)
              /\ align_log[i].text = SubSeq(paragraphs, p + 1, BodyEnd(i, p) - 1)
              /\ CursorAfter(i) = BodyEnd(i, p)

\* a body that ends at the paragraph of a heading two positions further in the
\* reference, with a paragraph of that heading's title inside the body's reach
C13_Witness ==
    \E i \in 1..Len(align_log) :
        /\ align_log[i].found_idx # 0
        /\ align_log[i].text # <<>>
        /\ LaterHeadingsAfter(i, align_log[i].found_idx) # {}
        /\ MinOf(LaterHeadingsAfter(i, align_log[i].found_idx)) > i + 1
        /\ pc = "done"

-----------------------------------------------------------------------------
(* Unmatched headings *)

\* the list without its element at position u
RemoveAt(seq, u) == SubSeq(seq, 1, u - 1) \o SubSeq(seq, u + 1, Len(seq))

\* the aligner has returned its mapping to the run
AlignerReturned == pc \in {"loop", "await", "done", "raised"} /\ align_log # <<>>

\* the mapping the aligner returns for the run's contract text when the
\* heading at position u is taken out of the reference list
AlignedWithout(u) ==
    extract_contract_sections(contract_md_text, RemoveAt(ref_headings, u))

\* C14 (unmatched headings are inert): when the heading at reference position
\* u had no matching paragraph at or after the cursor, the cursor is left as
\* it was, and the body the aligner returns for every other reference heading
\* is the body it returns for that heading when the heading at u is removed
\* from the reference list.
C14_UnmatchedInert ==
    AlignerReturned =>
        \A u \in 1..Len(align_log) :
            align_log[u].found_idx = 0 =>
                /\ CursorAfter(u) = align_log[u].cursor
                /\ \A i \in (1..Len(ref_headings)) \ {u} :
                       DictGet(aligned_sections, ref_headings[i], <<>>) =
                           DictGet(AlignedWithout(u), ref_headings[i], <<>>)

-----------------------------------------------------------------------------
(* The first object of a response *)

\* the first brace-delimited object of a text: from its first "{" to the first
\* "}" after it; <<>> when there is none
FirstObject(content) ==
    LET opens == {k \in 1..Len(content) : content[k].c = "{"}
    IN  IF opens = {} THEN <<>>
        ELSE LET closes == {k \in (MinOf(opens) + 1)..Len(content) :
                               content[k].c = "}"}
             IN  IF closes = {} THEN <<>>
                 ELSE SubSeq(content, MinOf(opens), MinOf(closes))

\* the first brace-delimited object of the response is a well-formed verdict
LeadsWithVerdict(content) ==
    /\ ~content.isNone
    /\ FirstObject(content.text) # <<>>
    /\ json_loads(FirstObject(content.text)).ok
    /\ StatusOf(json_loads(FirstObject(content.text)).value) \in {"Match", "Modified"}

\* C15 (first-object parsing): when the first brace-delimited object of the
\* response is a well-formed verdict object, the comparator returns that
\* object, whatever text comes before or after it.
C15_FirstObjectParsing ==
    (cmp_call.called /\ LeadsWithVerdict(cmp_call.content)) =>
        /\ cmp_call.out.exc = None
        /\ cmp_call.out.result = json_loads(FirstObject(cmp_call.content.text)).value

-----------------------------------------------------------------------------
(* Paragraphs and bodies *)

MatchedPositions == {i \in 1..Len(align_log) : align_log[i].found_idx # 0}

\* the paragraphs of the body given to the heading at position i
BodyOf(i) ==
    (align_log[i].found_idx + 1)..(align_log[i].found_idx + Len(align_log[i].text))

HeadingParagraphs == {align_log[i].found_idx : i \in MatchedPositions}

\* C16 (paragraph partition): once the aligner has gone through the reference
\* headings, no paragraph is in the bodies of two matched headings, no matched
\* heading's own paragraph is in a body, and every paragraph from the first
\* matched heading paragraph to the end of the document is a matched heading
\* paragraph or in exactly one body.
C16_ParagraphPartition ==
    AlignerReturned =>
        /\ \A i, k \in MatchedPositions : i # k => BodyOf(i) \cap BodyOf(k) = {}
        /\ \A i \in MatchedPositions : HeadingParagraphs \cap BodyOf(i) = {}
        /\ \A i \in MatchedPositions :
               /\ align_log[i].found_idx + Len(align_log[i].text) <= Len(paragraphs)
               /\ align_log[i].text =
                      [n \in 1..Len(align_log[i].text) |->
                          paragraphs[align_log[i].found_idx + n]]
        /\ MatchedPositions # {} =>
               \A j \in MinOf(HeadingParagraphs)..Len(paragraphs) :
                   \/ j \in HeadingParagraphs
                   \/ Cardinality({i \in MatchedPositions : j \in BodyOf(i)}) = 1

\* two matched headings, each with a body
C16_Witness ==
    /\ pc = "done"
    /\ \E i, k \in MatchedPositions :
           i # k /\ align_log[i].text # <<>> /\ align_log[k].text # <<>>

-----------------------------------------------------------------------------
(* The session *)

ResultShown == session_state.processing_complete /\ ~session_state.result.isNone

\* C17 (displayed result matches displayed request): whenever
\* processing_complete is true and a result is set, servicenow_metadata and
\* file_name are those of the request that produced the result, whatever
\* fetches, failed or not, and clears came before.
C17_ResultMatchesRequest ==
    ResultShown =>
        /\ session_state.servicenow_metadata =
               MetadataOf(session_state.result.request)
        /\ session_state.servicenow_metadata =
               session_state.result.servicenow_metadata
        /\ session_state.file_name = FileNameOf(session_state.result.request)

\* the part of C17 about Clear: a step that is the Clear button leaves
\* processing_complete false and result, file_name and servicenow_metadata
\* unset
ClearResets ==
    [][session_state' = reset_state(session_state) =>
          /\ ~session_state'.processing_complete
          /\ session_state'.result.isNone
          /\ session_state'.file_name = None
          /\ session_state'.servicenow_metadata = None]_vars

-----------------------------------------------------------------------------
(* The pipeline *)

PipelineRunning == pipeline.stage \in {"extracted", "validating", "stored"}

C18_WitnessMarker ==
    /\ pipeline.stage = "stored"
    /\ MarkerOccurs(pipeline.full_text)
    /\ pipeline.service_md # pipeline.full_text
    /\ pipeline.calls > 0

====
